---- MODULE Spec2Model ----
(***************************************************************************)
(* kuzco: a transactional, copy-on-write tree of reference-counted blocks. *)
(*                                                                         *)
(* The model instantiates the templates of Kuzco.hpp with the tree type    *)
(*     struct T { Member<int> a; Member<int> b; };                         *)
(* held by a RootObject<T>.  The heap is a finite set of blocks, each with *)
(* the use count of its std::shared_ptr control block; a block is freed    *)
(* when its count reaches zero, and freeing a T block releases the         *)
(* handles of its two Members.                                             *)
(*                                                                         *)
(* Kuzco.hpp declares the impl:: classes; their bodies are not part of the *)
(* header.  The operators that stand for those bodies are marked           *)
(* "(impl, from the design text)" below.                                   *)
(***************************************************************************)
EXTENDS Integers, Sequences, FiniteSets, TLC

\* ---------------------------------------------------------------- bounds
MaxBlocks == 7
MaxVal == 1
MaxTx == 2
MaxLocal == 2
MaxWrite == 3

Threads == {"t1", "t2"}
Roots == {"r1", "r2"}
Nodes == {"a", "b"}
Slots == {"x", "y"}
Vals == 0..MaxVal
Writes == 1..MaxWrite
\* The allocator keeps two pools. A thread with no transaction open allocates
\* from DeepPool, which holds the tree of one NewObject per root and MaxLocal
\* blocks more; a thread inside a transaction allocates from TxPool, MaxBlocks
\* blocks.
TreeSize == Cardinality(Nodes) + 1
DeepSize == Cardinality(Roots) * TreeSize + MaxLocal
DeepPool == 1..DeepSize
TxPool == (DeepSize + 1)..(DeepSize + MaxBlocks)
Blocks == DeepPool \cup TxPool
Null == 0
NoThread == "none"

VARIABLES
    heap,               \* block -> [k, a, b, v, rc]
    newObj,             \* root -> the NewObject<T> it will be built from (its m_data)
    m_root,             \* root -> impl::RootObject::m_root.m_data
    m_detachedRoot,     \* root -> impl::RootObject::m_detachedRoot
    m_openEdits,        \* root -> impl::RootObject::m_openEdits
    m_transactionMutex, \* root -> the thread holding the mutex, or NoThread
    ctx,                \* thread -> stack of the roots it has a transaction on
    pc,                 \* thread -> the call it is inside
    arg,                \* thread -> the root that call is on
    snap,               \* thread -> the handle detachedPayload() returned to it
    loc,                \* thread -> slot -> the Data of a Member<int> on its stack
    locCtx,             \* thread -> slot -> the context that Member was constructed in
    pub,                \* history: block -> version and tree value when published
    rdStart,            \* history: thread -> transactions ended when its read began
    acc,                \* history: root -> node -> its accesses in this transaction
    hist,               \* history: root -> the tree values committed so far
    fresh,              \* history: root -> block and value of the NewObject it took
    wr,                 \* accessor -> whether that NewObject<T>::Write exists
    openDataEdits,      \* calls of openDataEdit() on the NewObject so far
    closeDataEdits      \* calls of closeDataEdit() on the NewObject so far

vars == <<heap, newObj, m_root, m_detachedRoot, m_openEdits, m_transactionMutex,
          ctx, pc, arg, snap, loc, locCtx, pub, rdStart, acc, hist, fresh,
          wr, openDataEdits, closeDataEdits>>

\* the variables of the NewObject's Write accessors
wvars == <<wr, openDataEdits, closeDataEdits>>

\* ---------------------------------------------------------------- the heap
FreeBlock == [k |-> "free", a |-> Null, b |-> Null, v |-> 0, rc |-> 0]
NotPub == [ver |-> -1, val |-> <<>>]

IsFree(H, b) == H[b].k = "free"
\* Member::deep (impl, from the design text): the thread has no open
\* transaction; c is the thread's stack of open transactions
DeepCtx(c) == Len(c) = 0

Pool(c) == IF DeepCtx(c) THEN DeepPool ELSE TxPool
HasFree(c, H) == \E b \in Pool(c) : IsFree(H, b)

\* the address std::make_shared returns: a block not in use, the lowest of the
\* pool the calling thread allocates from
FreshId(c, H) ==
    CHOOSE b \in Pool(c) : IsFree(H, b) /\ \A x \in Pool(c) : IsFree(H, x) => b <= x

\* Data::construct<int>(v), lines 24-31
ConstructLeaf(c, H, v) ==
    [H EXCEPT ![FreshId(c, H)] = [k |-> "leaf", a |-> Null, b |-> Null, v |-> v, rc |-> 1]]

\* copying a std::shared_ptr
Acquire(H, h) == IF h = Null \/ IsFree(H, h) THEN H ELSE [H EXCEPT ![h].rc = @ + 1]

\* destroying a std::shared_ptr; the last one frees the block and runs ~T
RECURSIVE Release(_, _)
Release(H, h) ==
    IF h = Null \/ IsFree(H, h) THEN H
    ELSE IF H[h].rc > 1 THEN [H EXCEPT ![h].rc = @ - 1]
    ELSE Release(Release([H EXCEPT ![h] = FreeBlock], H[h].a), H[h].b)

RECURSIVE ReleaseAll(_, _)
ReleaseAll(H, s) == IF s = <<>> THEN H ELSE ReleaseAll(Release(H, Head(s)), Tail(s))

\* the value read through a const T*: what *p->a and *p->b give
TreeVal(H, h) == <<H[H[h].a].v, H[H[h].b].v>>

\* the blocks a handle to a T keeps alive
Reach(H, h) == IF h = Null THEN {} ELSE {h, H[h].a, H[h].b} \ {Null}

Top(s) == s[Len(s)]
Pop(s) == SubSeq(s, 1, Len(s) - 1)
Range(s) == {s[i] : i \in 1..Len(s)}

\* history: whether a node had a non-const get(), and whether it was assigned to
NoAccess == [get |-> FALSE, set |-> FALSE]
AccGet(x) == [x EXCEPT !.get = TRUE]
AccSet(x) == [x EXCEPT !.set = TRUE]

\* history: forget what is freed
PubKeep(H, P) == [b \in Blocks |-> IF IsFree(H, b) THEN NotPub ELSE P[b]]

\* ---------------------------------------------------------------- impl::Member
\* RootObject::isOpenEdit (impl, from the design text)
isOpenEdit(E, d) == \E i \in 1..Len(E) : E[i] = d

\* Member::detached (impl, from the design text)
detached(c, E, d) == IF DeepCtx(c) THEN TRUE ELSE isOpenEdit(E, d)

\* RootObject::openEdit (impl, from the design text): m_openEdits.push_back(d)
openEdit(E, d) == Append(E, d)

\* Member::detachWith (impl, from the design text): m_data = std::move(data), then
\* openEdit(m_data). This is its effect on the heap: the old handle is released,
\* `new` carries the reference that moves into m_data, and the registry's copy of
\* the Data holds one more.
detachWith(H, old, new) == Acquire(Release(H, old), new)

\* ---------------------------------------------------------------- Member<T>
\* a copy constructor that always allocates
MemberCopy_Deep(c, H, s) ==
    [h |-> ConstructLeaf(c, H, H[s].v), d |-> FreshId(c, H)]

\* a copy constructor that is shallow while any thread has a transaction open
MemberCopy_AnyThread(c, H, s) ==
    IF \A u \in Threads : Len(ctx[u]) = 0
    THEN [h |-> ConstructLeaf(c, H, H[s].v), d |-> FreshId(c, H)]
    ELSE [h |-> Acquire(H, s), d |-> s]

\* a copy constructor that always aliases
MemberCopy_Alias(c, H, s) == [h |-> Acquire(H, s), d |-> s]

\* Member(const Member& other), lines 158-162: the handle of the copy and the heap
MemberCopy(c, H, s) ==
    IF DeepCtx(c)
    THEN [h |-> ConstructLeaf(c, H, H[s].v), d |-> FreshId(c, H)]
    ELSE [h |-> Acquire(H, s), d |-> s]

\* Data::construct<T>(*p), lines 24-31: make_shared<T> with T's implicit copy
\* constructor, which copies the Members a and b
CopyT(c, H, rb) ==
    LET id == FreshId(c, H)
        H1 == [H EXCEPT ![id] = [k |-> "root", a |-> Null, b |-> Null, v |-> 0, rc |-> 1]]
        ca == MemberCopy(c, H1, H[rb].a)
        cb == MemberCopy(c, ca.h, H[rb].b)
    IN  [h |-> [cb.h EXCEPT ![id].a = ca.d, ![id].b = cb.d], d |-> id]

\* thread t is between its beginTransaction and its endTransaction on r
InTx(t, r) == pc[t] = "idle" /\ m_transactionMutex[r] = t /\ Len(ctx[t]) > 0
Edits(t) == m_openEdits[Top(ctx[t])]

\* ---------------------------------------------------------------- Init
\* NewObject<T>::NewObject, lines 126-129: the NewObject the root r1 will be built
\* from owns block 1, a T whose Members hold va and vb
InitHeap(va, vb) ==
    [x \in Blocks |->
        IF x = 1 THEN [k |-> "root", a |-> 2, b |-> 3, v |-> 0, rc |-> 1]
        ELSE IF x = 2 THEN [k |-> "leaf", a |-> Null, b |-> Null, v |-> va, rc |-> 1]
        ELSE IF x = 3 THEN [k |-> "leaf", a |-> Null, b |-> Null, v |-> vb, rc |-> 1]
        ELSE FreeBlock]

\* the fields of the roots, not yet constructed, and of the threads
InitFields ==
    /\ m_root = [r \in Roots |-> Null]
    /\ m_detachedRoot = [r \in Roots |-> Null]
    /\ m_openEdits = [r \in Roots |-> <<>>]
    /\ m_transactionMutex = [r \in Roots |-> NoThread]
    /\ ctx = [t \in Threads |-> <<>>]
    /\ pc = [t \in Threads |-> "idle"]
    /\ arg = [t \in Threads |-> "r1"]
    /\ snap = [t \in Threads |-> Null]
    /\ loc = [t \in Threads |-> [s \in Slots |-> Null]]
    /\ locCtx = [t \in Threads |-> [s \in Slots |-> "none"]]
    /\ pub = [b \in Blocks |-> NotPub]
    /\ rdStart = [t \in Threads |-> 0]
    /\ acc = [r \in Roots |-> [n \in Nodes |-> NoAccess]]
    /\ hist = [r \in Roots |-> {}]
    /\ fresh = [r \in Roots |->
                 IF newObj[r] = Null THEN [blk |-> Null, val |-> <<>>]
                 ELSE [blk |-> newObj[r], val |-> TreeVal(heap, newObj[r])]]
    /\ wr = [i \in Writes |-> "none"]
    /\ openDataEdits = 0
    /\ closeDataEdits = 0

\* one NewObject<T>, for r1
InitRest ==
    /\ newObj = [r \in Roots |-> IF r = "r1" THEN 1 ELSE Null]
    /\ InitFields

\* a NewObject<T> for each root: r1 from {a: 0, b: MaxVal} on blocks 1 to 3, r2
\* from {a: MaxVal, b: 0} on the next three
InitTwo ==
    /\ heap = [x \in Blocks |->
                 IF x <= TreeSize THEN InitHeap(0, MaxVal)[x]
                 ELSE IF x = TreeSize + 1
                      THEN [k |-> "root", a |-> TreeSize + 2, b |-> TreeSize + 3,
                            v |-> 0, rc |-> 1]
                 ELSE IF x = TreeSize + 2
                      THEN [k |-> "leaf", a |-> Null, b |-> Null, v |-> MaxVal, rc |-> 1]
                 ELSE IF x = TreeSize + 3
                      THEN [k |-> "leaf", a |-> Null, b |-> Null, v |-> 0, rc |-> 1]
                 ELSE FreeBlock]
    /\ newObj = [r \in Roots |-> IF r = "r1" THEN 1 ELSE TreeSize + 1]
    /\ InitFields

\* the NewObject<T> holds any tree value
Init == (\E va \in Vals, vb \in Vals : heap = InitHeap(va, vb)) /\ InitRest

\* the NewObject<T> holds {a: 0, b: MaxVal}
InitFixed == heap = InitHeap(0, MaxVal) /\ InitRest

\* ---------------------------------------------------------------- NewObject<T>::Write
\* what the steps below leave alone
RootVars ==
    <<newObj, m_root, m_detachedRoot, m_openEdits, m_transactionMutex, ctx, pc, arg,
      snap, loc, locCtx, pub, rdStart, acc, hist>>

\* Write w(), line 139, on the NewObject r1 will be built from: the Write it
\* returns is constructed in place, and its constructor (line 133) calls
\* openDataEdit()
NewObjectW(i) ==
    /\ newObj["r1"] # Null
    /\ wr[i] = "none"
    /\ wr' = [wr EXCEPT ![i] = "live"]
    /\ openDataEdits' = openDataEdits + 1
    /\ UNCHANGED <<heap, fresh, closeDataEdits, RootVars>>

\* Write(const Write&), the copy constructor the compiler declares for the
\* struct of lines 131-137: it copies the reference m_object and calls nothing
WriteCopy(i, j) ==
    /\ wr[i] = "live"
    /\ wr[j] = "none"
    /\ wr' = [wr EXCEPT ![j] = "live"]
    /\ UNCHANGED <<heap, fresh, openDataEdits, closeDataEdits, RootVars>>

\* T* Write::operator->(), line 135, and the assignment w->n = v through it:
\* Member<T>::operator=(U&&), lines 177-183, with no transaction open
WriteArrow(i, n, v) ==
    /\ newObj["r1"] # Null
    /\ wr[i] = "live"
    /\ detached(<<>>, <<>>, heap[newObj["r1"]][n])
    /\ heap' = [heap EXCEPT ![heap[newObj["r1"]][n]].v = v]
    /\ fresh' = [fresh EXCEPT !["r1"].val = TreeVal(heap', newObj["r1"])]
    /\ UNCHANGED <<wr, openDataEdits, closeDataEdits, RootVars>>

\* Write::~Write(), line 136: calls closeDataEdit()
WriteDtor(i) ==
    /\ wr[i] = "live"
    /\ wr' = [wr EXCEPT ![i] = "gone"]
    /\ closeDataEdits' = closeDataEdits + 1
    /\ UNCHANGED <<heap, fresh, openDataEdits, RootVars>>

\* ---------------------------------------------------------------- RootObject
Constructed(r) == m_root[r] # Null
Version(r) == pub[m_detachedRoot[r]].ver
\* transactions on r whose endTransaction has returned
EndedTx(r) ==
    IF \E t \in Threads : pc[t] \in {"end1", "end2"} /\ arg[t] = r
    THEN Version(r) - 1 ELSE Version(r)

\* impl::RootObject::RootObject(NewObject&&) (impl, from the design text):
\* m_root takes the NewObject's data, m_detachedRoot aliases its payload
ImplRootObject(H, obj) == [h |-> Acquire(H, obj), root |-> obj, detachedRoot |-> obj]

\* a constructor that builds the root from a copy of the NewObject's T
RootObjectCtor_Copy(H, obj) ==
    LET id == FreshId(<<>>, H)
        H1 == [H EXCEPT ![id] = [k |-> "root", a |-> H[obj].a, b |-> H[obj].b,
                                 v |-> 0, rc |-> 2]]
    IN  [h |-> Acquire(Acquire(H1, H[obj].a), H[obj].b), root |-> id, detachedRoot |-> id]

\* RootObject<T>::RootObject(NewObject<T>&& obj), line 208
RootObjectCtor(H, obj) == ImplRootObject(H, obj)

ConstructRoot(r) ==
    /\ newObj[r] # Null
    /\ ~Constructed(r)
    /\ LET c == RootObjectCtor(heap, newObj[r])
       IN  /\ heap' = c.h
           /\ m_root' = [m_root EXCEPT ![r] = c.root]
           /\ m_detachedRoot' = [m_detachedRoot EXCEPT ![r] = c.detachedRoot]
           /\ pub' = [pub EXCEPT ![c.detachedRoot] =
                        [ver |-> 0, val |-> TreeVal(c.h, c.detachedRoot)]]
    /\ newObj' = [newObj EXCEPT ![r] = Null]
    /\ hist' = [hist EXCEPT ![r] = {TreeVal(heap', m_detachedRoot'[r])}]
    /\ UNCHANGED <<m_openEdits, m_transactionMutex, ctx, pc, arg, snap, loc, locCtx,
                   rdStart, acc, fresh, wvars>>

\* a thread calls beginTransaction() and reaches the mutex
CallBegin(t, r) ==
    /\ pc[t] = "idle"
    /\ Constructed(r)
    /\ r \notin Range(ctx[t])
    /\ pc' = [pc EXCEPT ![t] = "begin"]
    /\ arg' = [arg EXCEPT ![t] = r]
    /\ UNCHANGED <<heap, newObj, m_root, m_detachedRoot, m_openEdits,
                   m_transactionMutex, ctx, snap, loc, locCtx, pub, rdStart, acc, hist, fresh, wvars>>

\* a thread that has a transaction open on r calls beginTransaction() on r again
\* and reaches the mutex it holds itself
CallBeginReentrant(t, r) ==
    /\ pc[t] = "idle"
    /\ InTx(t, r)
    /\ r \in Range(ctx[t])
    /\ pc' = [pc EXCEPT ![t] = "begin"]
    /\ arg' = [arg EXCEPT ![t] = r]
    /\ UNCHANGED <<heap, newObj, m_root, m_detachedRoot, m_openEdits,
                   m_transactionMutex, ctx, snap, loc, locCtx, pub, rdStart, acc, hist, fresh, wvars>>

\* std::mutex m_transactionMutex, line 109: lock() by the thread that owns the
\* mutex is undefined. It may never return, in which case no step of the thread
\* is enabled (MutexFree stays false), or it may throw std::system_error, which
\* leaves beginTransaction (lines 216-221) before anything is detached.
LockOwnedThrows(t) ==
    /\ pc[t] = "begin"
    /\ m_transactionMutex[arg[t]] = t
    /\ pc' = [pc EXCEPT ![t] = "idle"]
    /\ UNCHANGED <<heap, newObj, m_root, m_detachedRoot, m_openEdits,
                   m_transactionMutex, ctx, arg, snap, loc, locCtx, pub, rdStart, acc,
                   hist, fresh, wvars>>

\* a lock() that never waits
MutexFree_NoWait(r) == TRUE

\* m_transactionMutex.lock() (impl, from the design text) returns once no thread
\* holds the mutex
MutexFree(r) == m_transactionMutex[r] = NoThread

\* impl::RootObject::beginTransaction (impl, from the design text): lock, then
\* enter the thread's transaction context
ImplBeginTransaction(t, r) ==
    /\ MutexFree(r)
    /\ m_transactionMutex' = [m_transactionMutex EXCEPT ![r] = t]
    /\ ctx' = [ctx EXCEPT ![t] = Append(@, r)]

\* a beginTransaction that locks and returns the root as it is
BeginTransaction_NoDetach(t) ==
    /\ pc[t] = "begin"
    /\ Version(arg[t]) < MaxTx
    /\ ImplBeginTransaction(t, arg[t])
    /\ pc' = [pc EXCEPT ![t] = "idle"]
    /\ acc' = [acc EXCEPT ![arg[t]] = [n \in Nodes |-> NoAccess]]
    /\ UNCHANGED <<heap, m_root, m_openEdits, pub, newObj, m_detachedRoot, arg, snap,
                   loc, locCtx, rdStart, hist, fresh, wvars>>

\* RootObject<T>::beginTransaction, lines 216-221, from the lock on
BeginTransaction(t) ==
    LET r == arg[t]
        c == Append(ctx[t], r)
    IN  /\ pc[t] = "begin"
        /\ Version(r) < MaxTx
        /\ HasFree(c, heap)
        /\ ImplBeginTransaction(t, r)
        /\ LET cp == CopyT(c, heap, m_root[r])
           IN  /\ heap' = detachWith(cp.h, m_root[r], cp.d)
               /\ m_root' = [m_root EXCEPT ![r] = cp.d]
               /\ m_openEdits' = [m_openEdits EXCEPT ![r] = openEdit(@, m_root'[r])]
               /\ pub' = PubKeep(heap', pub)
        /\ pc' = [pc EXCEPT ![t] = "idle"]
        /\ acc' = [acc EXCEPT ![r] = [n \in Nodes |-> NoAccess]]
        /\ UNCHANGED <<newObj, m_detachedRoot, arg, snap, loc, locCtx, rdStart, hist, fresh, wvars>>

\* an endTransaction that stores nothing into m_detachedRoot
EndPublish_NoStore(t, r) ==
    /\ InTx(t, r)
    /\ Top(ctx[t]) = r
    /\ pc' = [pc EXCEPT ![t] = "end1"]
    /\ arg' = [arg EXCEPT ![t] = r]
    /\ UNCHANGED <<heap, m_detachedRoot, pub, hist, newObj, m_root, m_openEdits,
                   m_transactionMutex, ctx, snap, loc, locCtx, rdStart, acc, fresh, wvars>>

\* impl::RootObject::endTransaction (impl, from the design text), first step:
\* the atomic store of m_root's payload into m_detachedRoot
EndPublish(t, r) ==
    /\ InTx(t, r)
    /\ Top(ctx[t]) = r
    /\ heap' = Release(Acquire(heap, m_root[r]), m_detachedRoot[r])
    /\ m_detachedRoot' = [m_detachedRoot EXCEPT ![r] = m_root[r]]
    /\ pub' = [PubKeep(heap', pub) EXCEPT ![m_root[r]] =
                 [ver |-> Version(r) + 1, val |-> TreeVal(heap', m_root[r])]]
    /\ hist' = [hist EXCEPT ![r] = @ \cup {TreeVal(heap', m_root[r])}]
    /\ pc' = [pc EXCEPT ![t] = "end1"]
    /\ arg' = [arg EXCEPT ![t] = r]
    /\ UNCHANGED <<newObj, m_root, m_openEdits, m_transactionMutex, ctx, snap, loc,
                   locCtx, rdStart, acc, fresh, wvars>>

\* an endTransaction that leaves the registry as it is
EndClear_NoClear(t) ==
    /\ pc[t] = "end1"
    /\ acc' = [acc EXCEPT ![arg[t]] = [n \in Nodes |-> NoAccess]]
    /\ ctx' = [ctx EXCEPT ![t] = Pop(@)]
    /\ pc' = [pc EXCEPT ![t] = "end2"]
    /\ UNCHANGED <<heap, pub, m_openEdits, newObj, m_root, m_detachedRoot,
                   m_transactionMutex, arg, snap, loc, locCtx, rdStart, hist, fresh, wvars>>

\* second step: m_openEdits.clear() and leaving the thread's transaction context
EndClear(t) ==
    /\ pc[t] = "end1"
    /\ LET r == arg[t]
           H1 == ReleaseAll(heap, m_openEdits[r])
       IN  /\ heap' = H1
           /\ pub' = PubKeep(heap', pub)
           /\ m_openEdits' = [m_openEdits EXCEPT ![r] = <<>>]
           /\ acc' = [acc EXCEPT ![r] = [n \in Nodes |-> NoAccess]]
    /\ ctx' = [ctx EXCEPT ![t] = Pop(@)]
    /\ pc' = [pc EXCEPT ![t] = "end2"]
    /\ UNCHANGED <<newObj, m_root, m_detachedRoot, m_transactionMutex, arg, snap, loc,
                   locCtx, rdStart, hist, fresh, wvars>>

\* an endTransaction that returns with the mutex still locked
EndUnlock_KeepLock(t) ==
    /\ pc[t] = "end2"
    /\ pc' = [pc EXCEPT ![t] = "idle"]
    /\ UNCHANGED <<heap, newObj, m_root, m_detachedRoot, m_openEdits, m_transactionMutex,
                   ctx, arg, snap, loc, locCtx, pub, rdStart, acc, hist, fresh, wvars>>

\* third step: m_transactionMutex.unlock(), and the call returns
EndUnlock(t) ==
    /\ pc[t] = "end2"
    /\ m_transactionMutex' = [m_transactionMutex EXCEPT ![arg[t]] = NoThread]
    /\ pc' = [pc EXCEPT ![t] = "idle"]
    /\ UNCHANGED <<heap, newObj, m_root, m_detachedRoot, m_openEdits, ctx, arg, snap,
                   loc, locCtx, pub, rdStart, acc, hist, fresh, wvars>>

\* a thread calls detachedPayload()
CallDetached(t, r) ==
    /\ pc[t] = "idle"
    /\ Constructed(r)
    /\ pc' = [pc EXCEPT ![t] = "read"]
    /\ arg' = [arg EXCEPT ![t] = r]
    /\ rdStart' = [rdStart EXCEPT ![t] = EndedTx(r)]
    /\ UNCHANGED <<heap, newObj, m_root, m_detachedRoot, m_openEdits,
                   m_transactionMutex, ctx, snap, loc, locCtx, pub, acc, hist, fresh, wvars>>

\* impl::RootObject::detachedRoot (impl, from the design text): the atomic load
\* of m_detachedRoot, a copy of the handle
detachedRoot(r) == m_detachedRoot[r]

\* a detachedPayload() that hands back the handle the caller already holds
DetachedPayload_Cached(t) ==
    /\ pc[t] = "read"
    /\ snap' = IF snap[t] # Null THEN snap ELSE [snap EXCEPT ![t] = detachedRoot(arg[t])]
    /\ heap' = IF snap[t] # Null THEN heap ELSE Acquire(heap, snap'[t])
    /\ pub' = PubKeep(heap', pub)
    /\ pc' = [pc EXCEPT ![t] = "idle"]
    /\ rdStart' = [rdStart EXCEPT ![t] = 0]
    /\ UNCHANGED <<newObj, m_root, m_detachedRoot, m_openEdits, m_transactionMutex,
                   ctx, arg, loc, locCtx, acc, hist, fresh, wvars>>

\* a detachedPayload() that returns only while the transaction mutex is free
DetachedPayload_Locking(t) ==
    /\ pc[t] = "read"
    /\ MutexFree(arg[t])
    /\ snap' = [snap EXCEPT ![t] = detachedRoot(arg[t])]
    /\ heap' = Release(Acquire(heap, snap'[t]), snap[t])
    /\ pub' = PubKeep(heap', pub)
    /\ pc' = [pc EXCEPT ![t] = "idle"]
    /\ rdStart' = [rdStart EXCEPT ![t] = 0]
    /\ UNCHANGED <<newObj, m_root, m_detachedRoot, m_openEdits, m_transactionMutex,
                   ctx, arg, loc, locCtx, acc, hist, fresh, wvars>>

\* RootObject<T>::detachedPayload, line 225; the handle returned replaces the
\* one the thread held
DetachedPayload(t) ==
    /\ pc[t] = "read"
    /\ snap' = [snap EXCEPT ![t] = detachedRoot(arg[t])]
    /\ heap' = Release(Acquire(heap, snap'[t]), snap[t])
    /\ pub' = PubKeep(heap', pub)
    /\ pc' = [pc EXCEPT ![t] = "idle"]
    /\ rdStart' = [rdStart EXCEPT ![t] = 0]
    /\ UNCHANGED <<newObj, m_root, m_detachedRoot, m_openEdits, m_transactionMutex,
                   ctx, arg, loc, locCtx, acc, hist, fresh, wvars>>

\* the thread drops the handle it holds
ReleaseSnap(t) ==
    /\ pc[t] = "idle"
    /\ snap[t] # Null
    /\ LET H1 == Release(heap, snap[t])
       IN  heap' = H1 /\ pub' = PubKeep(heap', pub)
    /\ snap' = [snap EXCEPT ![t] = Null]
    /\ UNCHANGED <<newObj, m_root, m_detachedRoot, m_openEdits, m_transactionMutex,
                   ctx, pc, arg, loc, locCtx, rdStart, acc, hist, fresh, wvars>>

\* a get() that detaches on every call
MemberGet_AlwaysDetach(t, r, n, v) ==
    /\ InTx(t, r)
    /\ HasFree(ctx[t], heap)
    /\ LET rb == m_root[r]
           d == heap[rb][n]
           new == FreshId(ctx[t], heap)
           H1 == detachWith(ConstructLeaf(ctx[t], heap, heap[d].v), d, new)
       IN  /\ heap' = [H1 EXCEPT ![rb][n] = new, ![new].v = v]
           /\ pub' = PubKeep(heap', pub)
           /\ m_openEdits' = [m_openEdits EXCEPT ![Top(ctx[t])] = openEdit(@, new)]
    /\ acc' = [acc EXCEPT ![r][n] = AccGet(@)]
    /\ UNCHANGED <<newObj, m_root, m_detachedRoot, m_transactionMutex, ctx, pc, arg,
                   snap, loc, locCtx, rdStart, hist, fresh, wvars>>

\* ---------------------------------------------------------------- Member<T> in a transaction
\* T* Member::get(), lines 190-194, on node n of the root the transaction
\* detached, and a write of v through the pointer it returns
MemberGet(t, r, n, v) ==
    /\ InTx(t, r)
    /\ LET rb == m_root[r]
           d == heap[rb][n]
       IN  IF ~detached(ctx[t], Edits(t), d)
           THEN /\ HasFree(ctx[t], heap)
                /\ LET new == FreshId(ctx[t], heap)
                       H1 == detachWith(ConstructLeaf(ctx[t], heap, heap[d].v), d, new)
                   IN  /\ heap' = [H1 EXCEPT ![rb][n] = new, ![new].v = v]
                       /\ pub' = PubKeep(heap', pub)
                       /\ m_openEdits' = [m_openEdits EXCEPT
                                            ![Top(ctx[t])] = openEdit(@, new)]
           ELSE /\ heap' = [heap EXCEPT ![d].v = v]
                /\ UNCHANGED <<m_openEdits, pub, hist, fresh, wvars>>
    /\ acc' = [acc EXCEPT ![r][n] = AccGet(@)]
    /\ UNCHANGED <<newObj, m_root, m_detachedRoot, m_transactionMutex, ctx, pc, arg,
                   snap, loc, locCtx, rdStart, hist, fresh, wvars>>

\* a copy assignment that always writes into the target's block
MemberCopyAssign_InPlace(t, r, n, m) ==
    /\ InTx(t, r)
    /\ heap' = [heap EXCEPT ![heap[m_root[r]][n]].v = heap[heap[m_root[r]][m]].v]
    /\ acc' = [acc EXCEPT ![r][n] = AccSet(@)]
    /\ UNCHANGED <<m_openEdits, pub, newObj, m_root, m_detachedRoot, m_transactionMutex,
                   ctx, pc, arg, snap, loc, locCtx, rdStart, hist, fresh, wvars>>

\* Member& operator=(const Member& other), lines 164-169: node n = node m
MemberCopyAssign(t, r, n, m) ==
    /\ InTx(t, r)
    /\ LET rb == m_root[r]
           d == heap[rb][n]
           o == heap[rb][m]
       IN  IF detached(ctx[t], Edits(t), d)
           THEN /\ heap' = [heap EXCEPT ![d].v = heap[o].v]
                /\ UNCHANGED <<m_openEdits, pub, hist, fresh, wvars>>
           ELSE /\ HasFree(ctx[t], heap)
                /\ LET new == FreshId(ctx[t], heap)
                       H1 == detachWith(ConstructLeaf(ctx[t], heap, heap[o].v), d, new)
                   IN  /\ heap' = [H1 EXCEPT ![rb][n] = new]
                       /\ pub' = PubKeep(heap', pub)
                       /\ m_openEdits' = [m_openEdits EXCEPT
                                            ![Top(ctx[t])] = openEdit(@, new)]
    /\ acc' = [acc EXCEPT ![r][n] = AccSet(@)]
    /\ UNCHANGED <<newObj, m_root, m_detachedRoot, m_transactionMutex, ctx, pc, arg,
                   snap, loc, locCtx, rdStart, hist, fresh, wvars>>

\* Member& operator=(U&& u), lines 177-183: node n = v
MemberValueAssign(t, r, n, v) ==
    /\ InTx(t, r)
    /\ LET rb == m_root[r]
           d == heap[rb][n]
       IN  IF detached(ctx[t], Edits(t), d)
           THEN /\ heap' = [heap EXCEPT ![d].v = v]
                /\ UNCHANGED <<m_openEdits, pub, hist, fresh, wvars>>
           ELSE /\ HasFree(ctx[t], heap)
                /\ LET new == FreshId(ctx[t], heap)
                       H1 == detachWith(ConstructLeaf(ctx[t], heap, v), d, new)
                   IN  /\ heap' = [H1 EXCEPT ![rb][n] = new]
                       /\ pub' = PubKeep(heap', pub)
                       /\ m_openEdits' = [m_openEdits EXCEPT
                                            ![Top(ctx[t])] = openEdit(@, new)]
    /\ acc' = [acc EXCEPT ![r][n] = AccSet(@)]
    /\ UNCHANGED <<newObj, m_root, m_detachedRoot, m_transactionMutex, ctx, pc, arg,
                   snap, loc, locCtx, rdStart, hist, fresh, wvars>>

\* Member::checkedDetachTake (impl, from the design text): a detached target is
\* overwritten in place with the source's value and the source keeps its handle
\* (taken = FALSE); a shared target is detached with the source's handle
checkedDetachTake(c, H, E, d, src) ==
    IF detached(c, E, d)
    THEN [h |-> [H EXCEPT ![d].v = H[src].v], e |-> E, d |-> d, taken |-> FALSE]
    ELSE [h |-> detachWith(H, d, src), e |-> openEdit(E, src), d |-> src, taken |-> TRUE]

\* Member& operator=(Member&& other), line 172: node n = Member<int>(p->m), a
\* temporary copied from node m (lines 158-162) and destroyed after the statement
MemberMoveAssignCopy(t, r, n, m) ==
    /\ InTx(t, r)
    /\ LET rb == m_root[r]
           cp == MemberCopy(ctx[t], heap, heap[rb][m])
           ct == checkedDetachTake(ctx[t], cp.h, Edits(t), heap[rb][n], cp.d)
           H1 == [ct.h EXCEPT ![rb][n] = ct.d]
           H2 == IF ct.taken THEN H1 ELSE Release(H1, cp.d)
       IN  /\ heap' = H2
           /\ pub' = PubKeep(heap', pub)
           /\ m_openEdits' = [m_openEdits EXCEPT ![Top(ctx[t])] = ct.e]
    /\ acc' = [acc EXCEPT ![r][n] = AccSet(@)]
    /\ UNCHANGED <<newObj, m_root, m_detachedRoot, m_transactionMutex, ctx, pc, arg,
                   snap, loc, locCtx, rdStart, hist, fresh, wvars>>

\* Member& operator=(Member&& other), line 172: node n = std::move(c), c the
\* Member in slot s of the thread's stack
MemberMoveAssign(t, r, n, s) ==
    /\ InTx(t, r)
    /\ loc[t][s] # Null
    /\ LET rb == m_root[r]
           ct == checkedDetachTake(ctx[t], heap, Edits(t), heap[rb][n], loc[t][s])
           H1 == [ct.h EXCEPT ![rb][n] = ct.d]
       IN  /\ heap' = H1
           /\ pub' = PubKeep(heap', pub)
           /\ m_openEdits' = [m_openEdits EXCEPT ![Top(ctx[t])] = ct.e]
           /\ loc' = [loc EXCEPT ![t][s] = IF ct.taken THEN Null ELSE @]
           /\ locCtx' = [locCtx EXCEPT ![t][s] = IF ct.taken THEN "none" ELSE @]
    /\ acc' = [acc EXCEPT ![r][n] = AccSet(@)]
    /\ UNCHANGED <<newObj, m_root, m_detachedRoot, m_transactionMutex, ctx, pc, arg,
                   snap, rdStart, hist, fresh, wvars>>

\* Member& operator=(NewObject<T>&& obj), line 175: node n = NewObject<int>(v);
\* the temporary is destroyed after the statement
MemberMoveAssignNew(t, r, n, v) ==
    /\ InTx(t, r)
    /\ HasFree(ctx[t], heap)
    /\ LET rb == m_root[r]
           obj == FreshId(ctx[t], heap)
           ct == checkedDetachTake(ctx[t], ConstructLeaf(ctx[t], heap, v), Edits(t),
                                   heap[rb][n], obj)
           H1 == [ct.h EXCEPT ![rb][n] = ct.d]
           H2 == IF ct.taken THEN H1 ELSE Release(H1, obj)
       IN  /\ heap' = H2
           /\ pub' = PubKeep(heap', pub)
           /\ m_openEdits' = [m_openEdits EXCEPT ![Top(ctx[t])] = ct.e]
    /\ acc' = [acc EXCEPT ![r][n] = AccSet(@)]
    /\ UNCHANGED <<newObj, m_root, m_detachedRoot, m_transactionMutex, ctx, pc, arg,
                   snap, loc, locCtx, rdStart, hist, fresh, wvars>>

\* ---------------------------------------------------------------- Members on the stack
\* the context a Member is constructed in
CtxKind(t) == IF Len(ctx[t]) = 0 THEN "deep" ELSE "tx"

\* Member<int> c(src), lines 158-162, into slot s of thread t's stack
CopyInto(t, s, src) ==
    /\ pc[t] = "idle"
    /\ loc[t][s] = Null
    /\ DeepCtx(ctx[t]) => HasFree(ctx[t], heap)
    /\ LET cp == MemberCopy(ctx[t], heap, src)
       IN  /\ heap' = cp.h
           /\ loc' = [loc EXCEPT ![t][s] = cp.d]
    /\ locCtx' = [locCtx EXCEPT ![t][s] = CtxKind(t)]
    /\ UNCHANGED <<newObj, m_root, m_detachedRoot, m_openEdits, m_transactionMutex,
                   ctx, pc, arg, snap, pub, rdStart, acc, hist, fresh, wvars>>

\* Member<int> c(p->n), p the pointer beginTransaction returned
CopyFromTree(t, r, n, s) == InTx(t, r) /\ CopyInto(t, s, heap[m_root[r]][n])

\* Member<int> c(q->n), q the snapshot the thread holds
CopyFromSnap(t, n, s) == snap[t] # Null /\ CopyInto(t, s, heap[snap[t]][n])

\* Member<int> c(d), d the Member in the thread's other slot
CopyLocal(t, s, o) == o # s /\ loc[t][o] # Null /\ CopyInto(t, s, loc[t][o])

\* T* Member::get(), lines 190-194, on a Member that was built with no
\* transaction open (one that owns its block), by a thread that has none open,
\* and a write of v through the pointer; there is no registry to consult
LocalGet(t, s, v) ==
    /\ pc[t] = "idle"
    /\ Len(ctx[t]) = 0
    /\ locCtx[t][s] = "deep"
    /\ detached(ctx[t], <<>>, loc[t][s])
    /\ heap' = [heap EXCEPT ![loc[t][s]].v = v]
    /\ UNCHANGED <<newObj, m_root, m_detachedRoot, m_openEdits, m_transactionMutex,
                   ctx, pc, arg, snap, loc, locCtx, pub, rdStart, acc, hist, fresh, wvars>>

\* T* Member::get(), lines 190-194, on the Member in slot s by a thread inside
\* a transaction, and a write of v through the pointer
LocalGetShallow(t, s, v) ==
    /\ pc[t] = "idle"
    /\ Len(ctx[t]) > 0
    /\ loc[t][s] # Null
    /\ LET d == loc[t][s]
       IN  IF ~detached(ctx[t], Edits(t), d)
           THEN /\ HasFree(ctx[t], heap)
                /\ LET new == FreshId(ctx[t], heap)
                       H1 == detachWith(ConstructLeaf(ctx[t], heap, heap[d].v), d, new)
                   IN  /\ heap' = [H1 EXCEPT ![new].v = v]
                       /\ pub' = PubKeep(heap', pub)
                       /\ loc' = [loc EXCEPT ![t][s] = new]
                       /\ m_openEdits' = [m_openEdits EXCEPT
                                            ![Top(ctx[t])] = openEdit(@, new)]
           ELSE /\ heap' = [heap EXCEPT ![d].v = v]
                /\ UNCHANGED <<m_openEdits, pub, loc>>
    /\ UNCHANGED <<newObj, m_root, m_detachedRoot, m_transactionMutex, ctx, pc, arg,
                   snap, locCtx, rdStart, acc, hist, fresh, wvars>>

\* ~Member() of the Member in slot s
DropLocal(t, s) ==
    /\ pc[t] = "idle"
    /\ loc[t][s] # Null
    /\ LET H1 == Release(heap, loc[t][s])
       IN  heap' = H1 /\ pub' = PubKeep(heap', pub)
    /\ loc' = [loc EXCEPT ![t][s] = Null]
    /\ locCtx' = [locCtx EXCEPT ![t][s] = "none"]
    /\ UNCHANGED <<newObj, m_root, m_detachedRoot, m_openEdits, m_transactionMutex,
                   ctx, pc, arg, snap, rdStart, acc, hist, fresh, wvars>>

\* ---------------------------------------------------------------- specifications
Writer == {"t1"}
Reader == {"t2"}
MainRoot == {"r1"}

Construct == \E r \in MainRoot : ConstructRoot(r)
Begin(W) ==
    \/ \E t \in W, r \in MainRoot : CallBegin(t, r)
    \/ \E t \in W : BeginTransaction(t)
End(W) ==
    \/ \E t \in W, r \in MainRoot : EndPublish(t, r)
    \/ \E t \in W : EndClear(t)
    \/ \E t \in W : EndUnlock(t)
Read(R) ==
    \/ \E t \in R, r \in MainRoot : CallDetached(t, r)
    \/ \E t \in R : DetachedPayload(t)
    \/ \E t \in R : ReleaseSnap(t)
Get(W) == \E t \in W, r \in MainRoot, n \in Nodes, v \in Vals : MemberGet(t, r, n, v)
Assign(W) ==
    \/ \E t \in W, r \in MainRoot, n \in Nodes, m \in Nodes : MemberCopyAssign(t, r, n, m)
    \/ \E t \in W, r \in MainRoot, n \in Nodes, v \in Vals : MemberValueAssign(t, r, n, v)
    \/ \E t \in W, r \in MainRoot, n \in Nodes, m \in Nodes : MemberMoveAssignCopy(t, r, n, m)
    \/ \E t \in W, r \in MainRoot, n \in Nodes, v \in Vals : MemberMoveAssignNew(t, r, n, v)
DeepLocal(R) ==
    \/ \E t \in R, n \in Nodes : CopyFromSnap(t, n, "x")
    \/ \E t \in R : CopyLocal(t, "y", "x")
    \/ \E t \in R, s \in Slots, v \in Vals : LocalGet(t, s, v)
    \/ \E t \in R, s \in Slots : DropLocal(t, s)

\* Spec: one thread runs the transactions on the root, with every Member
\* operation on the tree; a second thread reads snapshots.
Next ==
    \/ Construct \/ Begin(Writer) \/ End(Writer) \/ Read(Reader)
    \/ Get(Writer) \/ Assign(Writer)
Spec == InitFixed /\ [][Next]_vars

\* SpecFresh: a root built from any value, transactions that write through
\* get(), and a reader.
NextFresh ==
    \/ Construct \/ Begin(Writer) \/ End(Writer) \/ Read(Reader) \/ Get(Writer)
SpecFresh == Init /\ [][NextFresh]_vars

\* SpecReader: SpecFresh where a reader inside detachedPayload() keeps being
\* scheduled; nothing is assumed of the thread that runs the transactions.
SpecReader == Init /\ [][NextFresh]_vars /\ \A t \in Reader : WF_vars(DetachedPayload(t))

\* SpecWriters: both threads run transactions on the root.
NextWriters ==
    \/ Construct \/ Begin(Threads) \/ End(Threads) \/ Get(Threads)
SpecWriters == InitFixed /\ [][NextWriters]_vars

\* SpecReentrant: SpecWriters where a thread may call beginTransaction on the
\* root it already has a transaction on.
Reenter(W) ==
    \/ \E t \in W, r \in MainRoot : CallBeginReentrant(t, r)
    \/ \E t \in W : LockOwnedThrows(t)
NextReentrant == NextWriters \/ Reenter(Threads)
SpecReentrant == InitFixed /\ [][NextReentrant]_vars

\* SpecProgress: both threads run transactions; a thread calls beginTransaction
\* only while fewer than MaxTx transactions have ended, are open or are waited
\* for. Every thread in a transaction goes on to endTransaction and through it,
\* and the mutex is handed out fairly: a thread for which it is free again and
\* again gets it.
Budget(r) ==
    Version(r) + Cardinality({u \in Threads : pc[u] = "begin" /\ arg[u] = r})
               + Cardinality({u \in Threads : InTx(u, r)}) < MaxTx
NextProgress ==
    \/ Construct
    \/ \E t \in Threads, r \in MainRoot : Constructed(r) /\ Budget(r) /\ CallBegin(t, r)
    \/ \E t \in Threads : BeginTransaction(t)
    \/ End(Threads)
    \/ Get(Threads)
SpecProgress ==
    /\ InitFixed /\ [][NextProgress]_vars
    /\ \A t \in Threads :
        /\ \A r \in MainRoot : WF_vars(EndPublish(t, r))
        /\ WF_vars(EndClear(t))
        /\ WF_vars(EndUnlock(t))
        /\ SF_vars(BeginTransaction(t))

\* SpecShallow: the thread that runs the transactions also copies Members of
\* the tree into a Member on its stack and writes through the copy, inside its
\* transaction; the Member is destroyed before endTransaction.
ShallowLocal(W) ==
    \/ \E t \in W, r \in MainRoot, n \in Nodes : CopyFromTree(t, r, n, "x")
    \/ \E t \in W, v \in Vals : LocalGetShallow(t, "x", v)
    \/ \E t \in W : Len(ctx[t]) > 0 /\ DropLocal(t, "x")
NextShallow ==
    \/ Construct \/ Begin(Writer) \/ Get(Writer)
    \/ ShallowLocal(Writer)
    \/ \E t \in Writer : loc[t]["x"] = Null /\ End({t})
SpecShallow == InitFixed /\ [][NextShallow]_vars

\* SpecAssign: one thread runs the transactions, writing through get(), copy
\* assignment and assignment of a value; a second thread reads snapshots.
CopyAssign(W) ==
    \/ \E t \in W, r \in MainRoot, n \in Nodes, m \in Nodes : MemberCopyAssign(t, r, n, m)
    \/ \E t \in W, r \in MainRoot, n \in Nodes, v \in Vals : MemberValueAssign(t, r, n, v)
NextAssign ==
    \/ Construct \/ Begin(Writer) \/ End(Writer) \/ Read(Reader)
    \/ Get(Writer) \/ CopyAssign(Writer)
SpecAssign == InitFixed /\ [][NextAssign]_vars

\* SpecNested: two roots. Thread t1 runs transactions on r1 and, inside or
\* outside them, on r2; thread t2 runs transactions on r2. Both read snapshots
\* of r1 and copy Members out of them, inside and outside their transactions.
NestedRoot == {"r2"}
NextNested ==
    \/ \E r \in Roots : ConstructRoot(r)
    \/ \E t \in Writer, r \in Roots : CallBegin(t, r) /\ (r \in MainRoot => ctx[t] = <<>>)
    \/ \E t \in Reader, r \in NestedRoot : CallBegin(t, r)
    \/ \E t \in Threads : BeginTransaction(t)
    \/ \E t \in Threads, r \in Roots : EndPublish(t, r)
    \/ \E t \in Threads : EndClear(t)
    \/ \E t \in Threads : EndUnlock(t)
    \/ \E t \in Threads, r \in MainRoot : CallDetached(t, r)
    \/ \E t \in Threads : DetachedPayload(t)
    \/ \E t \in Threads, n \in Nodes : CopyFromSnap(t, n, "x")
    \/ \E t \in Threads : DropLocal(t, "x")
SpecNested == InitTwo /\ [][NextNested]_vars

\* SpecWrite: the NewObject is written through Write accessors, each of them
\* created by w() or as a copy of another, and then the root is built from it.
NextWrite ==
    \/ \E i \in Writes : NewObjectW(i)
    \/ \E i \in Writes, j \in Writes : WriteCopy(i, j)
    \/ \E i \in Writes, n \in Nodes, v \in Vals : WriteArrow(i, n, v)
    \/ \E i \in Writes : WriteDtor(i)
    \/ Construct
SpecWrite == InitFixed /\ [][NextWrite]_vars

\* SpecDeep: a thread with no transaction copies Members out of the snapshots
\* it reads, copies its copies and writes to them, while the other thread runs
\* transactions.
NextDeep ==
    \/ Construct \/ Begin(Writer) \/ End(Writer) \/ Get(Writer)
    \/ Read(Reader) \/ DeepLocal(Reader)
SpecDeep == InitFixed /\ [][NextDeep]_vars

\* ---------------------------------------------------------------- snapshot isolation
\* C1: the tree value seen through every snapshot a thread holds is the value
\* the root was constructed with or the value the tree had at the
\* endTransaction of some transaction.
C1_SnapshotIsolation ==
    \A t \in Threads :
        snap[t] # Null => TreeVal(heap, snap[t]) \in hist[arg[t]]

\* what a block holds, without its use count
BlockVal(H, b) == [k |-> H[b].k, a |-> H[b].a, b |-> H[b].b, v |-> H[b].v]

\* C2: while a thread holds a snapshot, no step frees a block reachable from it
\* or changes what such a block holds.
C2_SnapshotImmutable ==
    [][\A t \in Threads :
          (snap[t] # Null /\ snap'[t] = snap[t]) =>
              \A b \in Reach(heap, snap[t]) :
                  ~IsFree(heap', b) /\ BlockVal(heap', b) = BlockVal(heap, b)]_vars

\* ---------------------------------------------------------------- writers
\* thread t has entered a transaction on r and its endTransaction has not returned
InTransaction(t, r) ==
    \/ r \in Range(ctx[t])
    \/ pc[t] \in {"end1", "end2"} /\ arg[t] = r

\* C3: at most one thread is in a transaction on a root, and a thread waiting
\* in beginTransaction while another thread is in a transaction on that root
\* stays waiting: it changes neither the root Node nor the open edits.
C3_WriterMutualExclusion ==
    /\ [](\A r \in Roots : Cardinality({t \in Threads : InTransaction(t, r)}) <= 1)
    /\ [][\A t \in Threads :
            (pc[t] = "begin" /\ \E u \in Threads \ {t} : InTransaction(u, arg[t])) =>
                /\ pc'[t] = "begin"
                /\ ~InTransaction(t, arg[t])'
                /\ ~BeginTransaction(t)]_vars

\* a thread waits in beginTransaction while the other is in its transaction
C3_Witness ==
    \E t \in Threads, u \in Threads :
        /\ t # u
        /\ pc[t] = "begin"
        /\ InTransaction(u, arg[t])
        /\ Len(m_openEdits[arg[t]]) > 1

\* ---------------------------------------------------------------- readers
\* C4: a thread may call detachedPayload() whenever it is idle; inside the call
\* its step is enabled whoever holds the transaction mutex, the step leaves the
\* mutex alone, and a reader that keeps being scheduled returns with a snapshot
\* even if the writer never ends its transaction.
C4_ReaderNonBlocking ==
    /\ [](\A t \in Reader, r \in MainRoot :
            (pc[t] = "idle" /\ Constructed(r)) => ENABLED CallDetached(t, r))
    /\ [](\A t \in Reader : pc[t] = "read" => ENABLED DetachedPayload(t))
    /\ [][\A t \in Reader :
            (pc[t] = "read" /\ pc'[t] # "read") =>
                m_transactionMutex' = m_transactionMutex]_vars
    /\ \A t \in Reader : (pc[t] = "read") ~> (pc[t] = "idle" /\ snap[t] # Null)

\* a reader is inside detachedPayload() while the writer is in a transaction
\* that has detached a Node
C4_Witness ==
    \E t \in Reader, r \in MainRoot :
        /\ pc[t] = "read"
        /\ arg[t] = r
        /\ m_transactionMutex[r] \in Writer
        /\ Len(m_openEdits[r]) > 1

\* C5: a detachedPayload() call that starts after i transactions have ended
\* returns the snapshot of version i or later, and never a version older than
\* the one the caller held before the call.
C5_PublicationOrdering ==
    [][\A t \in Threads :
          (pc[t] = "read" /\ pc'[t] = "idle") =>
              /\ pub'[snap'[t]].ver >= rdStart[t]
              /\ snap[t] # Null => pub'[snap'[t]].ver >= pub[snap[t]].ver]_vars

\* a reader that holds version 1 is inside a call that started after a later
\* transaction had ended
C5_Witness ==
    \E t \in Reader :
        /\ pc[t] = "read"
        /\ rdStart[t] = MaxTx
        /\ snap[t] # Null
        /\ pub[snap[t]].ver = 1

\* ---------------------------------------------------------------- copy on write
\* the blocks a step allocates
Allocated == {b \in Blocks : IsFree(heap, b) /\ ~IsFree(heap', b)}

\* C6: in a transaction, a non-const get() on a Node that is not detached
\* allocates exactly one block, binds the Node to it and registers it as an open
\* edit; a non-const get() on a Node that already had one in this transaction
\* allocates nothing, registers nothing and leaves the Node on its block.
C6_OneCopyPerNode ==
    [][\A t \in Threads, r \in MainRoot, n \in Nodes :
          (InTx(t, r) /\ MemberGet(t, r, n, heap'[heap'[m_root[r]][n]].v)) =>
              LET d == heap[m_root[r]][n]
                  e == heap'[m_root[r]][n]
              IN  /\ ~detached(ctx[t], m_openEdits[r], d) =>
                        /\ Allocated = {e}
                        /\ m_openEdits'[r] = Append(m_openEdits[r], e)
                  /\ acc[r][n].get =>
                        /\ Allocated = {}
                        /\ e = d
                        /\ isOpenEdit(m_openEdits[r], d)
                        /\ m_openEdits' = m_openEdits]_vars

\* Node a has had its non-const get() in this transaction, with assignments
\* to it before that, and is on a block of the registry
C6_Witness ==
    \E t \in Writer, r \in MainRoot :
        /\ InTx(t, r)
        /\ acc[r]["a"].get /\ acc[r]["a"].set
        /\ isOpenEdit(m_openEdits[r], heap[m_root[r]]["a"])
        /\ Len(m_openEdits[r]) = 2

\* C7: when a transaction whose only mutable access was get() on one child
\* publishes, the other child is the same block in the new snapshot as in the
\* snapshot before, while the accessed child and the root are other blocks.
C7_SiblingSharing ==
    [][\A t \in Threads, r \in MainRoot, n \in Nodes, m \in Nodes :
          (/\ EndPublish(t, r)
           /\ n # m
           /\ acc[r][n].get /\ ~acc[r][n].set
           /\ acc[r][m] = NoAccess) =>
              /\ heap'[m_detachedRoot'[r]][m] = heap[m_detachedRoot[r]][m]
              /\ heap'[m_detachedRoot'[r]][n] # heap[m_detachedRoot[r]][n]
              /\ m_detachedRoot'[r] # m_detachedRoot[r]]_vars

\* a transaction that took get() on a alone has just published
C7_Witness ==
    \E t \in Writer, r \in MainRoot :
        /\ pc[t] = "end1"
        /\ arg[t] = r
        /\ acc[r]["a"].get
        /\ acc[r]["b"] = NoAccess
        /\ Version(r) = MaxTx

\* the handles other than slot s of thread t through which block b is reached
OtherHolders(t, s, b) ==
    {<<u, x>> \in Threads \X Slots : <<u, x>> # <<t, s>> /\ loc[u][x] = b}
    \cup {<<u, "snap">> : u \in {u \in Threads : b \in Reach(heap, snap[u])}}
    \cup {<<r, "root">> : r \in {r \in Roots : b \in Reach(heap, m_root[r])
                                             \/ b \in Reach(heap, m_detachedRoot[r])}}

\* C8: a Member copied by a thread with no open transaction gets a block that
\* was free before, with the source's value; a write through such a copy changes
\* no other block and the copy's block is held by no other handle; and no other
\* step changes the value of the copy.
C8_DeepIsolation ==
    [][\A t \in Threads, s \in Slots :
          /\ (Len(ctx[t]) = 0 /\ loc[t][s] = Null /\ loc'[t][s] # Null) =>
                /\ Allocated = {loc'[t][s]}
                /\ heap'[loc'[t][s]].rc = 1
                /\ \A n \in Nodes : CopyFromSnap(t, n, s) =>
                       heap'[loc'[t][s]].v = heap[heap[snap[t]][n]].v
                /\ \A o \in Slots : CopyLocal(t, s, o) =>
                       heap'[loc'[t][s]].v = heap[loc[t][o]].v
          /\ (\E v \in Vals : LocalGet(t, s, v)) =>
                /\ OtherHolders(t, s, loc[t][s]) = {}
                /\ \A b \in Blocks \ {loc[t][s]} : heap'[b] = heap[b]
          /\ (locCtx[t][s] = "deep" /\ loc'[t][s] = loc[t][s]
                /\ ~\E v \in Vals : LocalGet(t, s, v)) =>
                heap'[loc[t][s]].v = heap[loc[t][s]].v]_vars

\* a thread holds a copy of a snapshot's Node and a copy of that copy, and
\* the three differ in value
C8_Witness ==
    \E t \in Reader :
        /\ snap[t] # Null
        /\ loc[t]["x"] # Null /\ loc[t]["y"] # Null
        /\ heap[loc[t]["x"]].v # heap[loc[t]["y"]].v
        /\ \E n \in Nodes : heap[heap[snap[t]][n]].v # heap[loc[t]["x"]].v

\* ---------------------------------------------------------------- the root
\* no beginTransaction has detached the root since it was constructed
NeverBegun(r) == Constructed(r) /\ Version(r) = 0 /\ m_root[r] = m_detachedRoot[r]

\* C9: a detachedPayload() that returns before any transaction has begun
\* returns the block the NewObject owned, holding the value it was built with.
C9_RoundTrip ==
    [][\A t \in Threads, r \in MainRoot :
          (DetachedPayload(t) /\ arg[t] = r /\ NeverBegun(r)) =>
              /\ snap'[t] = fresh[r].blk
              /\ TreeVal(heap', snap'[t]) = fresh[r].val]_vars

\* a thread holds the snapshot of a root built from {a: MaxVal, b: 0} that has
\* had no transaction
C9_Witness ==
    \E t \in Reader, r \in MainRoot :
        /\ NeverBegun(r)
        /\ pc[t] = "idle"
        /\ snap[t] # Null
        /\ fresh[r].val = <<MaxVal, 0>>

\* C10: the registry of a root is empty while no thread holds its mutex, it is
\* empty once endTransaction has cleared it and before the mutex is released,
\* and beginTransaction finds it empty and leaves the new root block alone in it.
C10_RegistryEmptyWhenIdle ==
    /\ [](\A r \in Roots : m_transactionMutex[r] = NoThread => m_openEdits[r] = <<>>)
    /\ [](\A t \in Threads : pc[t] = "end2" => m_openEdits[arg[t]] = <<>>)
    /\ [][\A t \in Threads :
            BeginTransaction(t) =>
                /\ m_openEdits[arg[t]] = <<>>
                /\ m_openEdits'[arg[t]] = <<m_root'[arg[t]]>>]_vars

\* the second endTransaction has cleared the registry and still holds the
\* mutex; both children were detached on the way
C10_Witness ==
    \E t \in Writer, r \in MainRoot :
        /\ pc[t] = "end2"
        /\ arg[t] = r
        /\ m_transactionMutex[r] = t
        /\ m_openEdits[r] = <<>>
        /\ Version(r) = MaxTx
        /\ heap[m_root[r]]["a"] \in TxPool
        /\ heap[m_root[r]]["b"] \in TxPool

\* ---------------------------------------------------------------- the lock
\* thread t is inside a beginTransaction on a root whose mutex it holds
Reentered(t) == pc[t] = "begin" /\ m_transactionMutex[arg[t]] = t

C12_WriterProgress ==
    \A t \in Threads :
        (pc[t] = "begin") ~> (pc[t] = "idle" /\ arg[t] \in Range(ctx[t]))

\* a thread waits in beginTransaction while the holder is inside endTransaction,
\* the mutex not yet released
C12_Witness ==
    \E t \in Threads, u \in Threads :
        /\ t # u
        /\ pc[t] = "begin"
        /\ pc[u] = "end2"
        /\ arg[u] = arg[t]
        /\ m_transactionMutex[arg[t]] = u

\* ---------------------------------------------------------------- the root Node
\* C13: beginTransaction allocates exactly one block, binds the root Node to it,
\* gives it the value the root had (its Members aliasing the same blocks) and
\* leaves it alone in the registry; until the transaction publishes, the root
\* Node's block is not the committed block, is held by no snapshot and is the
\* first entry of the registry.
C13_BeginPrivatisesRoot ==
    /\ [][\A t \in Threads :
            BeginTransaction(t) =>
                LET r == arg[t]
                    old == m_root[r]
                    new == m_root'[r]
                IN  /\ Allocated = {new}
                    /\ TreeVal(heap', new) = TreeVal(heap, old)
                    /\ \A n \in Nodes : heap'[new][n] = heap[old][n]
                    /\ m_openEdits'[r] = <<new>>]_vars
    /\ [](\A t \in Threads, r \in MainRoot :
            InTx(t, r) =>
                /\ m_root[r] # m_detachedRoot[r]
                /\ m_root[r] \notin Reach(heap, m_detachedRoot[r])
                /\ \A u \in Threads : snap[u] # m_root[r]
                /\ m_openEdits[r] # <<>>
                /\ Head(m_openEdits[r]) = m_root[r])

\* the second transaction has detached the root and both children, and a
\* reader holds the committed snapshot
C13_Witness ==
    \E t \in Writer, u \in Reader, r \in MainRoot :
        /\ InTx(t, r)
        /\ Version(r) = 1
        /\ Len(m_openEdits[r]) >= 3
        /\ snap[u] = m_detachedRoot[r]

\* C14: while no thread holds the mutex of a constructed root, and from the
\* store in endTransaction on, m_detachedRoot and the root Node are the same
\* block; m_detachedRoot changes only in the constructor and in endTransaction.
C14_CommittedIsRootWhenIdle ==
    /\ [](\A r \in MainRoot :
            (Constructed(r) /\ ~\E t \in Threads : InTx(t, r)) =>
                m_detachedRoot[r] = m_root[r])
    /\ [][\A r \in MainRoot :
            m_detachedRoot'[r] # m_detachedRoot[r] =>
                \/ ConstructRoot(r)
                \/ \E t \in Threads : EndPublish(t, r)]_vars

\* the root is idle after its last transaction, both children on blocks that
\* transactions allocated
C14_Witness ==
    \E r \in MainRoot :
        /\ Constructed(r)
        /\ m_transactionMutex[r] = NoThread
        /\ Version(r) = MaxTx
        /\ m_detachedRoot[r] = m_root[r]
        /\ heap[m_root[r]]["a"] \in TxPool
        /\ heap[m_root[r]]["b"] \in TxPool

\* ---------------------------------------------------------------- detached Nodes
\* node n of the tree of r is detached for the thread that holds the transaction
NodeDetached(t, r, n) == detached(ctx[t], m_openEdits[r], heap[m_root[r]][n])

\* the step is a write by t to node n of r: a non-const get() or an assignment
WriteTo(t, r, n) ==
    \/ InTx(t, r) /\ MemberGet(t, r, n, heap'[heap'[m_root[r]][n]].v)
    \/ \E m \in Nodes : MemberCopyAssign(t, r, n, m)
    \/ InTx(t, r) /\ MemberValueAssign(t, r, n, heap'[heap'[m_root[r]][n]].v)
    \/ \E m \in Nodes : MemberMoveAssignCopy(t, r, n, m)
    \/ InTx(t, r) /\ MemberMoveAssignNew(t, r, n, heap'[heap'[m_root[r]][n]].v)

\* C15: inside a transaction a detached Node stays detached by every step up
\* to endTransaction, and a Node that is not detached becomes detached only by
\* a write to that Node.
C15_DetachedOnce ==
    [][\A t \in Threads, r \in MainRoot, n \in Nodes :
          (InTx(t, r) /\ InTx(t, r)') =>
              /\ NodeDetached(t, r, n) => NodeDetached(t, r, n)'
              /\ (~NodeDetached(t, r, n) /\ NodeDetached(t, r, n)') =>
                    WriteTo(t, r, n)]_vars

\* the Members whose handle is block b: the root Node and the children of the
\* tree of r, and the Members on the threads' stacks
NodesOn(r, b) ==
    {<<"tree", n>> : n \in {n \in Nodes : heap[m_root[r]][n] = b}}
    \cup {<<"tree", "root">> : x \in {x \in {m_root[r]} : x = b}}
    \cup {<<u, x>> \in Threads \X Slots : loc[u][x] = b}

\* C16: inside a transaction every block of the registry is outside the
\* committed snapshot and outside every snapshot a thread holds, and is the
\* block of exactly one Member.
C16_DetachedExclusive ==
    \A t \in Threads, r \in MainRoot :
        InTx(t, r) =>
            \A i \in 1..Len(m_openEdits[r]) :
                LET b == m_openEdits[r][i]
                IN  /\ b \notin Reach(heap, m_detachedRoot[r])
                    /\ \A u \in Threads : b \notin Reach(heap, snap[u])
                    /\ Cardinality(NodesOn(r, b)) = 1

\* ---------------------------------------------------------------- assignment
\* the frame of an assignment of value w to node n of r by thread t: a
\* detached target keeps its block, nothing is allocated and only that block
\* changes, to hold w; a target that is not detached is bound to the one
\* block the step allocates, which holds w and is registered, and every other
\* block that is still in use holds what it held. The other Node of the tree
\* keeps its block in both cases.
AssignFrame(t, r, n, w) ==
    LET rb == m_root[r]
        d == heap[rb][n]
        e == heap'[rb][n]
    IN  /\ m_root'[r] = rb
        /\ \A k \in Nodes \ {n} : heap'[rb][k] = heap[rb][k]
        /\ heap'[e].v = w
        /\ NodeDetached(t, r, n) =>
              /\ e = d
              /\ Allocated = {}
              /\ m_openEdits' = m_openEdits
              /\ \A b \in Blocks \ {d} : heap'[b] = heap[b]
        /\ ~NodeDetached(t, r, n) =>
              /\ e # d
              /\ Allocated = {e}
              /\ NodeDetached(t, r, n)'
              /\ \A b \in Blocks \ {e, rb} :
                    IsFree(heap', b) \/ BlockVal(heap', b) = BlockVal(heap, b)
              /\ ~IsFree(heap', d) /\ BlockVal(heap', d) = BlockVal(heap, d)

Published(r) ==
    Reach(heap, m_detachedRoot[r]) \cup UNION {Reach(heap, snap[u]) : u \in Threads}

\* what a move assignment into node n of r, from a source on block src, may do:
\* it leaves every block of a snapshot as it is; a target that is not detached
\* is bound to src and is detached afterwards, its old block unwritten; a
\* detached target keeps its block, which takes the source's value.
MoveFrame(t, r, n, src, w) ==
    LET d == heap[m_root[r]][n]
        e == heap'[m_root[r]][n]
    IN  /\ \A b \in Published(r) :
              ~IsFree(heap', b) /\ BlockVal(heap', b) = BlockVal(heap, b)
        /\ ~NodeDetached(t, r, n) =>
              /\ e = src
              /\ NodeDetached(t, r, n)'
              /\ IsFree(heap', d) \/ BlockVal(heap', d) = BlockVal(heap, d)
        /\ NodeDetached(t, r, n) =>
              /\ e = d
              /\ heap'[d].v = w

\* C18: a move assignment into a Node inside a transaction, from a Member
\* copied from the tree or from a NewObject, has the frame above.
C18_MoveAssignSafe ==
    [][\A t \in Threads, r \in MainRoot, n \in Nodes :
          InTx(t, r) =>
              /\ \A m \in Nodes :
                    MemberMoveAssignCopy(t, r, n, m) =>
                        MoveFrame(t, r, n, heap[m_root[r]][m], heap[heap[m_root[r]][m]].v)
              /\ MemberMoveAssignNew(t, r, n, heap'[heap'[m_root[r]][n]].v) =>
                    MoveFrame(t, r, n, FreshId(ctx[t], heap),
                              heap'[heap'[m_root[r]][n]].v)]_vars

\* ---------------------------------------------------------------- deep and shallow
\* the transactions thread t has open: the roots whose mutex it holds, less the
\* one whose endTransaction has already left the transaction
OpenTransactions(t) ==
    Cardinality({r \in Roots : m_transactionMutex[r] = t})
        - (IF pc[t] = "end2" THEN 1 ELSE 0)

\* C19: the depth of a thread is the number of transactions it has open; a
\* Member copied by a thread with none open gets a block of its own, whatever
\* the other threads have open, and a Member copied by a thread with one or
\* more open shares the source's block.
C19_PerThreadDepth ==
    /\ [](\A t \in Threads :
            /\ Len(ctx[t]) = OpenTransactions(t)
            /\ DeepCtx(ctx[t]) <=> OpenTransactions(t) = 0)
    /\ [][\A t \in Threads, n \in Nodes :
            CopyFromSnap(t, n, "x") =>
                LET src == heap[snap[t]][n]
                    cp == loc'[t]["x"]
                IN  /\ OpenTransactions(t) = 0 =>
                          /\ cp # src
                          /\ Allocated = {cp}
                          /\ heap'[cp].v = heap[src].v
                          /\ heap'[src] = heap[src]
                    /\ OpenTransactions(t) > 0 =>
                          /\ cp = src
                          /\ Allocated = {}
                          /\ heap'[src].rc = heap[src].rc + 1]_vars

\* t1 is leaving a transaction on r2 inside its transaction on r1, which is
\* still open, and holds a Member it copied inside, sharing the source's block;
\* t2 holds a Member it copied on a block of its own
C19_Witness ==
    /\ ctx["t1"] = <<"r1">>
    /\ pc["t1"] = "end2"
    /\ arg["t1"] = "r2"
    /\ m_transactionMutex["r1"] = "t1"
    /\ snap["t1"] # Null
    /\ loc["t1"]["x"] \in {heap[snap["t1"]][n] : n \in Nodes}
    /\ locCtx["t1"]["x"] = "tx"
    /\ loc["t2"]["x"] # Null
    /\ locCtx["t2"]["x"] = "deep"

\* ---------------------------------------------------------------- Write accessors
\* C20: w() calls openDataEdit() once and the destruction of an accessor calls
\* closeDataEdit() once, and nothing else calls them; closeDataEdit() has
\* never been called more often than openDataEdit(); with no accessor alive the
\* two have been called equally often; and a write through an accessor happens
\* while more edits have been opened than closed.
C20_WriteBalanced ==
    /\ [][/\ (\E i \in Writes : NewObjectW(i)) <=> openDataEdits' = openDataEdits + 1
          /\ (\E i \in Writes : WriteDtor(i)) <=> closeDataEdits' = closeDataEdits + 1
          /\ openDataEdits' \in {openDataEdits, openDataEdits + 1}
          /\ closeDataEdits' \in {closeDataEdits, closeDataEdits + 1}
          /\ (\E i \in Writes, n \in Nodes, v \in Vals : WriteArrow(i, n, v)) =>
                openDataEdits > closeDataEdits]_vars
    /\ [](closeDataEdits <= openDataEdits)
    /\ []((\A i \in Writes : wr[i] # "live") => openDataEdits = closeDataEdits)

====
